---- MODULE Spec2Model ----
(***************************************************************************)
(* Model of homework.py: the fitness-tracker module.                       *)
(*                                                                         *)
(* Numbers are exact rationals [tag |-> "num", n, d] in lowest terms       *)
(* (Python evaluates the same expressions in binary floating point; the    *)
(* rounding of the last bit is not modelled).  A raised exception is the   *)
(* value [tag |-> "exc", kind, msg]; every operator propagates the first   *)
(* exception raised by its operands, left to right, as Python does.        *)
(* The Cyrillic texts of the source are transliterated: the module         *)
(* language only has ASCII strings.                                        *)
(***************************************************************************)
EXTENDS Integers, Sequences, FiniteSets, TLC

VARIABLES
    WORKOUT_NAMES,  \* the dispatch mapping, a module global
    classAttrs,     \* the class attributes (variant constants) of each class
    packages,       \* the driver's list of (workout_type, data) pairs
    idx,            \* position of the driver's for loop in packages (1-based)
    pc,             \* the driver's position: "read" | "main" | "done", or
                    \* "failed_read" | "failed_main" once read_package or main
                    \* has raised; "calls" for a direct caller
    training,       \* the workout object at hand, or None
    info,           \* the InfoMessage at hand, or None
    ret,            \* result of the last direct method call, or None
    output,         \* the lines printed to standard output
    err             \* the exception that ended the run, or None

vars == <<WORKOUT_NAMES, classAttrs, packages, idx, pc, training, info, ret,
          output, err>>

globals == <<WORKOUT_NAMES, classAttrs>>

\* Longest package list the driver is run on.
MaxPackages == 2

\* Most lines a caller of main prints.
MaxLines == 2

None == [tag |-> "none"]

---------------------------------------------------------------------------
(* Exceptions *)

Raise(kind, msg) == [tag |-> "exc", kind |-> kind, msg |-> msg]

IsExc(v) == v.tag = "exc"

---------------------------------------------------------------------------
(* Python numbers, as exact rationals *)

Abs(i) == IF i < 0 THEN -i ELSE i

RECURSIVE GCD(_, _)
GCD(a, b) == IF b = 0 THEN a ELSE GCD(b, a % b)

\* n/d in lowest terms with a positive denominator (d /= 0)
Num(n, d) ==
    LET g == GCD(Abs(n), Abs(d))
        s == IF d < 0 THEN -1 ELSE 1
    IN  [tag |-> "num", n |-> s * (n \div g), d |-> s * (d \div g)]

R(i) == [tag |-> "num", n |-> i, d |-> 1]

\* a * b
Mul(a, b) ==
    IF IsExc(a) THEN a
    ELSE IF IsExc(b) THEN b
    ELSE LET g1 == GCD(Abs(a.n), b.d)
             g2 == GCD(Abs(b.n), a.d)
         IN  Num((a.n \div g1) * (b.n \div g2), (a.d \div g2) * (b.d \div g1))

\* a / b
Div(a, b) ==
    IF IsExc(a) THEN a
    ELSE IF IsExc(b) THEN b
    ELSE IF b.n = 0 THEN Raise("ZeroDivisionError", "float division by zero")
    ELSE Mul(a, Num(b.d, b.n))

\* a + b
Add(a, b) ==
    IF IsExc(a) THEN a
    ELSE IF IsExc(b) THEN b
    ELSE LET g == GCD(a.d, b.d)
             l == (a.d \div g) * b.d
         IN  Num(a.n * (l \div a.d) + b.n * (l \div b.d), l)

\* a ** 2
Pow2(a) == Mul(a, a)

---------------------------------------------------------------------------
(* Class attributes and their lookup along the inheritance chain *)

Classes == {"Training", "Running", "SportsWalking", "Swimming"}

\* The class attributes as the class statements define them.
ClassAttrsInit ==
    [c \in Classes |->
        CASE c = "Training" ->
               [LEN_STEP |-> Num(65, 100), M_IN_KM |-> R(1000),
                HOUR_IN_MIN |-> R(60)]
          [] c = "Running" ->
               [CALORIES_MEAN_SPEED_MULTIPLIER |-> R(18),
                CALORIES_MEAN_SPEED_SHIFT |-> Num(179, 100)]
          [] c = "SportsWalking" ->
               [KM_PER_H_IN_M_PER_S |-> Num(278, 1000),
                FIRST_COEFFICIENT |-> Num(35, 1000),
                SECOND_COEFFICIENT |-> Num(29, 1000),
                SM_IN_M |-> R(100)]
          [] c = "Swimming" ->
               [LEN_STEP |-> Num(138, 100),
                FIRST_COEFFICIENT |-> Num(11, 10),
                SECOND_COEFFICIENT |-> R(2)]]

\* The dispatch mapping as the module defines it.
WorkoutNamesInit ==
    [c \in {"SWM", "RUN", "WLK"} |->
        CASE c = "SWM" -> "Swimming"
          [] c = "RUN" -> "Running"
          [] c = "WLK" -> "SportsWalking"]

\* self.NAME: the attribute of the object's own class, else of the base class
Attr(self, name) ==
    IF name \in DOMAIN classAttrs[self.cls]
    THEN classAttrs[self.cls][name]
    ELSE classAttrs["Training"][name]

---------------------------------------------------------------------------
(* Constructors *)

\* The parameters of each class's __init__, after self, in order.
InitParams(cls) ==
    CASE cls = "SportsWalking" -> <<"action", "duration", "weight", "height">>
      [] cls = "Swimming" -> <<"action", "duration", "weight",
                               "length_pool", "count_pool">>
      [] OTHER -> <<"action", "duration", "weight">>

\* Mutant: the last two positional arguments are bound the wrong way round.
Construct_swapped_tail(cls, data) ==
    LET params == InitParams(cls)
        n == Len(params)
        pos(i) == IF i = n THEN n - 1 ELSE IF i = n - 1 THEN n ELSE i
    IN  IF Len(data) /= n
        THEN Raise("TypeError", "__init__() missing or extra positional arguments")
        ELSE [tag |-> "obj", cls |-> cls,
              fields |-> [f \in {params[i] : i \in 1..n} |->
                            data[pos(CHOOSE i \in 1..n : params[i] = f)]]]

\* cls(*data): binds data to the parameters by position; a list of the wrong
\* length is Python's TypeError, raised before __init__ runs.
Construct(cls, data) ==
    LET params == InitParams(cls)
    IN  IF Len(data) /= Len(params)
        THEN Raise("TypeError", "__init__() missing or extra positional arguments")
        ELSE [tag |-> "obj", cls |-> cls,
              fields |-> [f \in {params[i] : i \in 1..Len(params)} |->
                            data[CHOOSE i \in 1..Len(params) : params[i] = f]]]

---------------------------------------------------------------------------
(* Training and its subclasses *)

get_distance(self) ==
    Div(Mul(self.fields.action, Attr(self, "LEN_STEP")), Attr(self, "M_IN_KM"))

\* Mutant: a zero duration is answered with speed 0 instead of dividing.
Training_get_mean_speed_guarded(self) ==
    IF self.fields.duration = R(0) THEN R(0)
    ELSE Div(get_distance(self), self.fields.duration)

Training_get_mean_speed(self) ==
    Div(get_distance(self), self.fields.duration)

Swimming_get_mean_speed(self) ==
    Div(Div(Mul(self.fields.length_pool, self.fields.count_pool),
            Attr(self, "M_IN_KM")),
        self.fields.duration)

\* Mutant: Swimming's override is missing.
get_mean_speed_not_overridden(self) == Training_get_mean_speed(self)

\* self.get_mean_speed(): Swimming overrides it
get_mean_speed(self) ==
    IF self.cls = "Swimming" THEN Swimming_get_mean_speed(self)
    ELSE Training_get_mean_speed(self)

\* Mutant: the base method returns 0 instead of raising.
Training_get_spent_calories_zero(self) == R(0)

Training_get_spent_calories(self) ==
    Raise("NotImplementedError", "Nuzhno pereopredelit' metod")

Running_get_spent_calories(self) ==
    LET duration_in_m == Mul(self.fields.duration, Attr(self, "HOUR_IN_MIN"))
    IN  Mul(Div(Mul(Add(Mul(Attr(self, "CALORIES_MEAN_SPEED_MULTIPLIER"),
                            get_mean_speed(self)),
                        Attr(self, "CALORIES_MEAN_SPEED_SHIFT")),
                    self.fields.weight),
                Attr(self, "M_IN_KM")),
            duration_in_m)

SportsWalking_get_spent_calories(self) ==
    LET mean_speed_in_mPs == Mul(get_mean_speed(self),
                                 Attr(self, "KM_PER_H_IN_M_PER_S"))
        height_in_m == Div(self.fields.height, Attr(self, "SM_IN_M"))
        duration_in_m == Mul(self.fields.duration, Attr(self, "HOUR_IN_MIN"))
    IN  IF IsExc(mean_speed_in_mPs) THEN mean_speed_in_mPs
        ELSE Mul(Add(Mul(Attr(self, "FIRST_COEFFICIENT"), self.fields.weight),
                     Mul(Mul(Div(Pow2(mean_speed_in_mPs), height_in_m),
                             Attr(self, "SECOND_COEFFICIENT")),
                         self.fields.weight)),
                 duration_in_m)

\* Mutant: the parentheses around (mean speed + FIRST_COEFFICIENT) are lost.
Swimming_get_spent_calories_noparens(self) ==
    Add(get_mean_speed(self),
        Mul(Mul(Mul(Attr(self, "FIRST_COEFFICIENT"),
                    Attr(self, "SECOND_COEFFICIENT")),
                self.fields.weight),
            self.fields.duration))

Swimming_get_spent_calories(self) ==
    Mul(Mul(Mul(Add(get_mean_speed(self), Attr(self, "FIRST_COEFFICIENT")),
                Attr(self, "SECOND_COEFFICIENT")),
            self.fields.weight),
        self.fields.duration)

\* self.get_spent_calories(): every subclass overrides it
get_spent_calories(self) ==
    CASE self.cls = "Running" -> Running_get_spent_calories(self)
      [] self.cls = "SportsWalking" -> SportsWalking_get_spent_calories(self)
      [] self.cls = "Swimming" -> Swimming_get_spent_calories(self)
      [] OTHER -> Training_get_spent_calories(self)

\* InfoMessage(...): the dataclass constructor, after its arguments are
\* evaluated in order
InfoMessage(training_type, duration, distance, speed, calories) ==
    IF IsExc(distance) THEN distance
    ELSE IF IsExc(speed) THEN speed
    ELSE IF IsExc(calories) THEN calories
    ELSE [tag |-> "info", training_type |-> training_type,
          duration |-> duration, distance |-> distance, speed |-> speed,
          calories |-> calories]

show_training_info(self) ==
    InfoMessage(self.cls, self.fields.duration, get_distance(self),
                get_mean_speed(self), get_spent_calories(self))

---------------------------------------------------------------------------
(* InfoMessage.get_message *)

Digit(i) == ToString(i)

\* format(x, ".3f"): x rounded to thousandths (ties to even), at least one
\* digit before the point and exactly three after it
Fmt3(x) ==
    LET a  == Abs(x.n)
        ip == a \div x.d
        r0 == a % x.d
        d1 == (r0 * 10) \div x.d
        r1 == (r0 * 10) % x.d
        d2 == (r1 * 10) \div x.d
        r2 == (r1 * 10) % x.d
        d3 == (r2 * 10) \div x.d
        r3 == (r2 * 10) % x.d
        up == IF 2 * r3 > x.d \/ (2 * r3 = x.d /\ d3 % 2 = 1) THEN 1 ELSE 0
        m  == ip * 1000 + d1 * 100 + d2 * 10 + d3 + up
        f  == m % 1000
    IN  (IF x.n < 0 THEN "-" ELSE "") \o ToString(m \div 1000) \o "." \o
        Digit(f \div 100) \o Digit((f \div 10) % 10) \o Digit(f % 10)

\* MESSAGE.format(**asdict(self))
get_message(self) ==
    "Tip trenirovki: " \o self.training_type \o "; " \o
    "Dlitel'nost': " \o Fmt3(self.duration) \o " ch.; " \o
    "Distanciya: " \o Fmt3(self.distance) \o " km; " \o
    "Sr. skorost': " \o Fmt3(self.speed) \o " km/ch; " \o
    "Potracheno kkal: " \o Fmt3(self.calories) \o "."

---------------------------------------------------------------------------
(* Module functions *)

\* Mutant: "except Exception" in place of "except KeyError".
read_package_except_all(e) ==
    Raise("KeyError", "Takoj trenerovki net")

\* Mutant: a bare "raise" in the except clause.
read_package_except_reraise(e) == e

\* The except clause of read_package: a KeyError raised inside the try block,
\* by the lookup or by the constructor, is replaced; anything else passes.
read_package_except(e) ==
    IF e.kind = "KeyError" THEN Raise("KeyError", "Takoj trenerovki net")
    ELSE e

\* Mutant: WORKOUT_NAMES.get(workout_type, Running) in place of indexing.
read_package_default(workout_type, data) ==
    LET r == IF workout_type \in DOMAIN WORKOUT_NAMES
             THEN Construct(WORKOUT_NAMES[workout_type], data)
             ELSE Construct("Running", data)
    IN  IF IsExc(r) THEN read_package_except(r) ELSE r

read_package(workout_type, data) ==
    LET r == IF workout_type \in DOMAIN WORKOUT_NAMES
             THEN Construct(WORKOUT_NAMES[workout_type], data)
             ELSE Raise("KeyError", workout_type)
    IN  IF IsExc(r) THEN read_package_except(r) ELSE r

\* main(training): the InfoMessage it builds and the line it prints, or the
\* exception show_training_info raised
main(t) ==
    LET i == show_training_info(t)
    IN  IF IsExc(i) THEN i
        ELSE [tag |-> "printed", info |-> i, line |-> get_message(i)]

---------------------------------------------------------------------------
(* Inputs.  The readings are chosen so that every intermediate value of    *)
(* the formulas, as a fraction in lowest terms, fits a 32-bit integer.      *)

Ints(data) == [i \in 1..Len(data) |-> R(data[i])]

\* Argument lists of the right length for each class.
GoodData(cls) ==
    CASE cls = "Swimming" ->
           {<<720, 1, 80, 25, 40>>, <<1000, 1, 80, 25, 40>>,
            <<720, 2, 80, 50, 10>>, <<720, 0, 80, 25, 40>>}
      [] cls = "SportsWalking" ->
           {<<10000, 1, 75, 180>>, <<20000, 2, 75, 180>>,
            <<10000, 1, 75, 0>>, <<10000, 0, 75, 180>>, <<20000, 0, 75, 0>>}
      [] OTHER ->
           {<<15000, 1, 75>>, <<-3000, 2, 60>>, <<15000, 0, 75>>}

\* Argument lists of the wrong length for each class.
BadData(cls) ==
    CASE cls = "Swimming" -> {<<720, 1, 80, 25>>, <<>>}
      [] cls = "SportsWalking" -> {<<9000, 1, 75, 180, 5>>}
      [] OTHER -> {<<15000, 1>>, <<15000, 1, 75, 180>>}

Codes == {"SWM", "RUN", "WLK"}

UnknownCodes == {"XYZ", "Running"}

\* The (workout_type, data) pairs a package list is drawn from.
Pool ==
    {<<c, Ints(d)>> : c \in {"SWM"}, d \in GoodData("Swimming") \cup BadData("Swimming")}
    \cup {<<c, Ints(d)>> : c \in {"RUN"}, d \in GoodData("Running") \cup BadData("Running")}
    \cup {<<c, Ints(d)>> : c \in {"WLK"},
                           d \in GoodData("SportsWalking") \cup BadData("SportsWalking")}
    \cup {<<c, Ints(d)>> : c \in UnknownCodes, d \in {<<15000, 1, 75>>, <<>>}}

PackageLists == UNION {[1..n -> Pool] : n \in 0..MaxPackages}

\* Workouts constructed directly, of every class, the base class included.
Objects ==
    UNION {{Construct(cls, Ints(d)) : d \in GoodData(cls)} : cls \in Classes}

---------------------------------------------------------------------------
(* The driver: the module's __main__ block *)

Init ==
    /\ WORKOUT_NAMES = WorkoutNamesInit
    /\ classAttrs = ClassAttrsInit
    /\ packages \in PackageLists
    /\ idx = 1
    /\ pc = "read"
    /\ training = None
    /\ info = None
    /\ ret = None
    /\ output = << >>
    /\ err = None

\* training = read_package(workout_type, data)
ReadPackage ==
    /\ pc = "read"
    /\ idx <= Len(packages)
    /\ LET r == read_package(packages[idx][1], packages[idx][2])
       IN  IF IsExc(r)
           THEN /\ err' = r
                /\ pc' = "failed_read"
                /\ UNCHANGED training
           ELSE /\ training' = r
                /\ pc' = "main"
                /\ UNCHANGED err
    /\ UNCHANGED <<globals, packages, idx, info, ret, output>>

\* Mutant: the new line is put before the lines already printed.
Main_prepend ==
    /\ pc = "main"
    /\ LET r == main(training)
       IN  IF IsExc(r)
           THEN /\ err' = r
                /\ pc' = "failed_main"
                /\ UNCHANGED <<info, output, idx>>
           ELSE /\ info' = r.info
                /\ output' = <<r.line>> \o output
                /\ idx' = idx + 1
                /\ pc' = "read"
                /\ UNCHANGED err
    /\ UNCHANGED <<globals, packages, training, ret>>

\* main(training), and the loop's step to the next package
Main ==
    /\ pc = "main"
    /\ LET r == main(training)
       IN  IF IsExc(r)
           THEN /\ err' = r
                /\ pc' = "failed_main"
                /\ UNCHANGED <<info, output, idx>>
           ELSE /\ info' = r.info
                /\ output' = Append(output, r.line)
                /\ idx' = idx + 1
                /\ pc' = "read"
                /\ UNCHANGED err
    /\ UNCHANGED <<globals, packages, training, ret>>

\* the for loop is exhausted: the program exits normally
Exit ==
    /\ pc = "read"
    /\ idx > Len(packages)
    /\ pc' = "done"
    /\ UNCHANGED <<globals, packages, idx, training, info, ret, output, err>>

Next == ReadPackage \/ Main \/ Exit

Spec == Init /\ [][Next]_vars

---------------------------------------------------------------------------
(* A caller of the classes: a workout constructed directly, then any         *)
(* sequence of calls of its methods, of main and of get_message              *)

Returned(method, value) == [tag |-> "ret", method |-> method, value |-> value]

InitCalls ==
    /\ WORKOUT_NAMES = WorkoutNamesInit
    /\ classAttrs = ClassAttrsInit
    /\ packages = << >>
    /\ idx = 1
    /\ pc = "calls"
    /\ training \in Objects
    /\ info = None
    /\ ret = None
    /\ output = << >>
    /\ err = None

\* Mutant: get_distance converts self.action in place.
CallGetDistance_in_place ==
    /\ pc = "calls"
    /\ ret' = Returned("get_distance", get_distance(training))
    /\ training' = [training EXCEPT !.fields.action = get_distance(training)]
    /\ UNCHANGED <<globals, packages, idx, pc, info, output, err>>

CallGetDistance ==
    /\ pc = "calls"
    /\ ret' = Returned("get_distance", get_distance(training))
    /\ UNCHANGED <<globals, packages, idx, pc, training, info, output, err>>

CallGetMeanSpeed ==
    /\ pc = "calls"
    /\ ret' = Returned("get_mean_speed", get_mean_speed(training))
    /\ UNCHANGED <<globals, packages, idx, pc, training, info, output, err>>

CallGetSpentCalories ==
    /\ pc = "calls"
    /\ ret' = Returned("get_spent_calories", get_spent_calories(training))
    /\ UNCHANGED <<globals, packages, idx, pc, training, info, output, err>>

\* info = training.show_training_info(): the caller keeps the record
CallShowTrainingInfo ==
    /\ pc = "calls"
    /\ LET r == show_training_info(training)
       IN  /\ ret' = Returned("show_training_info", r)
           /\ info' = IF IsExc(r) THEN info ELSE r
    /\ UNCHANGED <<globals, packages, idx, pc, training, output, err>>

\* info.get_message() on the record the caller holds
CallGetMessage ==
    /\ pc = "calls"
    /\ info /= None
    /\ ret' = Returned("get_message", [tag |-> "str", s |-> get_message(info)])
    /\ UNCHANGED <<globals, packages, idx, pc, training, info, output, err>>

\* main(training)
CallMain ==
    /\ pc = "calls"
    /\ Len(output) < MaxLines
    /\ LET r == main(training)
       IN  IF IsExc(r)
           THEN /\ ret' = Returned("main", r)
                /\ UNCHANGED output
           ELSE /\ ret' = Returned("main", None)
                /\ output' = Append(output, r.line)
    /\ UNCHANGED <<globals, packages, idx, pc, training, info, err>>

NextCalls ==
    \/ CallGetDistance
    \/ CallGetMeanSpeed
    \/ CallGetSpentCalories
    \/ CallShowTrainingInfo
    \/ CallGetMessage
    \/ CallMain

SpecCalls == InitCalls /\ [][NextCalls]_vars

---------------------------------------------------------------------------
(* Properties of read_package, checked on the driver *)

\* The package the driver's loop is at, when there is one.
AtPackage == idx <= Len(packages)

CurCode == packages[idx][1]

CurData == packages[idx][2]

\* The number of readings each workout type takes.
RightLength(code, data) ==
    Len(data) = CASE code = "SWM" -> 5
                  [] code = "WLK" -> 4
                  [] code = "RUN" -> 3

\* What the variable training held before the call at the current package.
PrevTraining ==
    IF idx = 1 THEN None
    ELSE [tag |-> "obj", cls |-> WorkoutNamesInit[packages[idx - 1][1]],
          fields |-> [f \in DOMAIN training.fields |->
                        packages[idx - 1][2][
                            CHOOSE i \in 1..5 :
                                <<"action", "duration", "weight",
                                  IF f = "height" THEN "height" ELSE "length_pool",
                                  "count_pool">>[i] = f]]]

UnknownWorkoutType == Raise("KeyError", "Takoj trenerovki net")

\* read_package has returned for the current package
Dispatched == AtPackage /\ pc \in {"main", "failed_main"}

\* C1: for a code of the mapping and an argument list of the right length,
\* read_package returns a workout of the mapped class (SWM -> Swimming,
\* RUN -> Running, WLK -> SportsWalking) whose fields are the arguments in
\* positional order: action, duration, weight, then height for WLK, or
\* length_pool and count_pool for SWM.
C1_ReadPackageBindsPositionally ==
    (AtPackage /\ pc /= "read" /\ CurCode \in Codes
        /\ RightLength(CurCode, CurData)) =>
        /\ Dispatched
        /\ training.tag = "obj"
        /\ training.cls = CASE CurCode = "SWM" -> "Swimming"
                            [] CurCode = "RUN" -> "Running"
                            [] CurCode = "WLK" -> "SportsWalking"
        /\ training.fields.action = CurData[1]
        /\ training.fields.duration = CurData[2]
        /\ training.fields.weight = CurData[3]
        /\ CASE CurCode = "SWM" ->
                  /\ DOMAIN training.fields =
                        {"action", "duration", "weight", "length_pool", "count_pool"}
                  /\ training.fields.length_pool = CurData[4]
                  /\ training.fields.count_pool = CurData[5]
             [] CurCode = "WLK" ->
                  /\ DOMAIN training.fields =
                        {"action", "duration", "weight", "height"}
                  /\ training.fields.height = CurData[4]
             [] CurCode = "RUN" ->
                  DOMAIN training.fields = {"action", "duration", "weight"}

C1_Witness ==
    /\ pc = "main"
    /\ CurCode = "SWM"
    /\ training.cls = "Swimming"
    /\ training.fields.length_pool = R(25)
    /\ training.fields.count_pool = R(40)

\* C2: for a code outside the mapping and any argument list, read_package
\* raises KeyError with its own message, returns no workout (training keeps
\* what it held) and no line is printed for that package.
C2_UnknownCodeRaises ==
    (AtPackage /\ pc /= "read" /\ CurCode \notin Codes) =>
        /\ pc = "failed_read"
        /\ err = UnknownWorkoutType
        /\ training = PrevTraining
        /\ Len(output) = idx - 1

C2_Witness ==
    /\ pc = "failed_read"
    /\ idx = 2
    /\ CurCode = "XYZ"
    /\ CurData = << >>
    /\ err.kind = "KeyError"
    /\ Len(output) = 1

\* C8: for a code of the mapping with an argument list of the wrong length,
\* read_package fails at construction with the constructor's own TypeError,
\* not converted into the KeyError of an unknown code, and returns no workout.
C8_WrongLengthPropagates ==
    (AtPackage /\ pc /= "read" /\ CurCode \in Codes
        /\ ~RightLength(CurCode, CurData)) =>
        /\ pc = "failed_read"
        /\ err.tag = "exc"
        /\ err.kind = "TypeError"
        /\ err /= UnknownWorkoutType
        /\ training = PrevTraining
        /\ Len(output) = idx - 1

C8_Witness ==
    /\ pc = "failed_read"
    /\ CurCode = "WLK"
    /\ Len(CurData) = 5
    /\ err.kind = "TypeError"

\* C9 as stated: a failure raised while constructing the variant of a
\* recognized code reaches the caller as the same error kind and message as
\* the failure raised for a code that is not in the mapping.
C9_Original_SameErrorForBoth ==
    (pc = "failed_read" /\ CurCode \in Codes) => err = UnknownWorkoutType

\* C9 amended: read_package rewraps only KeyError.  A code outside the mapping
\* reaches the caller as KeyError with read_package's message; a failure
\* constructing the variant of a recognized code reaches the caller unchanged,
\* as TypeError, a different kind and message.
C9_OnlyKeyErrorIsWrapped ==
    pc = "failed_read" =>
        /\ CurCode \notin Codes =>
              err.kind = "KeyError" /\ err.msg = "Takoj trenerovki net"
        /\ CurCode \in Codes =>
              /\ err.kind = "TypeError"
              /\ err.kind /= UnknownWorkoutType.kind
              /\ err.msg /= UnknownWorkoutType.msg

C9_Witness ==
    /\ pc = "failed_read"
    /\ CurCode = "RUN"
    /\ Len(CurData) = 2
    /\ err.kind = "TypeError"
    /\ idx = 2
    /\ packages[1][1] = "SWM"

---------------------------------------------------------------------------
(* Properties of the driver *)

\* A package the driver can print a line for: a code of the mapping, the
\* right number of readings, and readings on which no division is by zero.
WellFormed(pkg) ==
    /\ pkg[1] \in Codes
    /\ RightLength(pkg[1], pkg[2])
    /\ pkg[2][2] /= R(0)
    /\ pkg[1] = "WLK" => pkg[2][4] /= R(0)

\* The line of a package, computed apart from the driver.
ExpectedLine(pkg) ==
    get_message(show_training_info(Construct(WorkoutNamesInit[pkg[1]], pkg[2])))

Failed == pc \in {"failed_read", "failed_main"}

C4_CaloriesByVariant ==
    info.tag = "info" =>
        LET code == packages[idx - 1][1]
            d == packages[idx - 1][2]
            speed == IF code = "SWM"
                     THEN Div(Div(Mul(d[4], d[5]), R(1000)), d[2])
                     ELSE Div(Div(Mul(d[1], Num(65, 100)), R(1000)), d[2])
        IN  /\ info.speed = speed
            /\ info.calories =
                 CASE code = "RUN" ->
                        Mul(Div(Mul(Add(Mul(R(18), speed), Num(179, 100)), d[3]),
                                R(1000)),
                            Mul(d[2], R(60)))
                   [] code = "WLK" ->
                        Mul(Add(Mul(Num(35, 1000), d[3]),
                                Mul(Mul(Div(Pow2(Mul(speed, Num(278, 1000))),
                                            Div(d[4], R(100))),
                                        Num(29, 1000)),
                                    d[3])),
                            Mul(d[2], R(60)))
                   [] code = "SWM" ->
                        Mul(Mul(Mul(Add(speed, Num(11, 10)), R(2)), d[3]), d[2])
            /\ (code = "RUN" /\ d = Ints(<<15000, 1, 75>>)) =>
                  info.distance = Num(975, 100) /\ info.calories = Num(797805, 1000)
            /\ (code = "SWM" /\ d = Ints(<<720, 1, 80, 25, 40>>)) =>
                  info.speed = R(1) /\ info.calories = R(336)

C4_Witness ==
    /\ info.tag = "info"
    /\ packages[idx - 1] = <<"SWM", Ints(<<720, 1, 80, 25, 40>>)>>
    /\ info.training_type = "Swimming"
    /\ info.calories = R(336)
    /\ pc = "done"

---------------------------------------------------------------------------
(* Properties of the methods, checked on a direct caller *)

Called(method) == ret.tag = "ret" /\ ret.method = method

Unimplemented == Raise("NotImplementedError", "Nuzhno pereopredelit' metod")

\* C5: for a Swimming workout with non-zero duration, get_mean_speed() is
\* length_pool * count_pool / 1000 / duration, whatever the action count, and
\* so is the speed of its summary; it differs from get_distance() / duration
\* whenever action * 1.38 differs from length_pool * count_pool.
\* SWM [720, 1, 80, 25, 40] has mean speed 1 while distance / duration is 0.9936.
C5_SwimmingSpeedFromPool ==
    (training.cls = "Swimming" /\ training.fields.duration /= R(0)) =>
        LET f == training.fields
            pool == Div(Div(Mul(f.length_pool, f.count_pool), R(1000)), f.duration)
            steps == Div(Div(Mul(f.action, Num(138, 100)), R(1000)), f.duration)
        IN  /\ Called("get_mean_speed") =>
                /\ ret.value = pool
                /\ \A a \in {0, 1, 720, 1000} :
                      get_mean_speed([training EXCEPT !.fields.action = R(a)])
                          = ret.value
                /\ Mul(f.action, Num(138, 100)) /= Mul(f.length_pool, f.count_pool)
                      => ret.value /= steps
                /\ training = Construct("Swimming", Ints(<<720, 1, 80, 25, 40>>))
                      => ret.value = R(1) /\ steps = Num(9936, 10000)
            /\ Called("show_training_info") =>
                /\ ret.value.tag = "info"
                /\ ret.value.speed = pool
                /\ ret.value.distance = Mul(steps, f.duration)

C5_Witness ==
    /\ training = Construct("Swimming", Ints(<<1000, 1, 80, 25, 40>>))
    /\ Called("get_mean_speed")
    /\ ret.value = R(1)
    /\ get_distance(training) = Num(138, 100)

\* C6: get_spent_calories() on a workout of the base class always raises
\* NotImplementedError, so show_training_info() and main() on it fail too
\* (with ZeroDivisionError from the mean speed when the duration is 0) and no
\* record or line ever comes of it; on a workout of a class the dispatch
\* mapping names, no call raises NotImplementedError.
C6_BaseCaloriesUnimplemented ==
    /\ training.cls = "Training" =>
          /\ Called("get_spent_calories") => ret.value = Unimplemented
          /\ (Called("show_training_info") \/ Called("main")) =>
                ret.value = IF training.fields.duration = R(0)
                            THEN Raise("ZeroDivisionError", "float division by zero")
                            ELSE Unimplemented
          /\ info = None
          /\ output = << >>
    /\ training.cls \in {WORKOUT_NAMES[c] : c \in DOMAIN WORKOUT_NAMES} =>
          ~(ret.tag = "ret" /\ ret.value.tag = "exc"
              /\ ret.value.kind = "NotImplementedError")

C6_Witness ==
    /\ training.cls = "Training"
    /\ Called("show_training_info")
    /\ ret.value = Unimplemented

\* C7: no call mutates anything.  get_distance(), get_mean_speed(),
\* get_spent_calories(), show_training_info() and main() leave every field of
\* the workout, every class attribute and the dispatch mapping as they were
\* after construction, and get_message() leaves the record it formats as it was.
C7_NothingMutated ==
    /\ [](WORKOUT_NAMES = WorkoutNamesInit /\ classAttrs = ClassAttrsInit)
    /\ [][/\ training' = training
          /\ WORKOUT_NAMES' = WORKOUT_NAMES
          /\ classAttrs' = classAttrs
          /\ ret'.method = "get_message" => info' = info]_vars

C7_Witness ==
    /\ training = Construct("SportsWalking", Ints(<<10000, 1, 75, 180>>))
    /\ Called("get_message")
    /\ info.tag = "info"
    /\ Len(output) = 2

====
